---- MODULE Spec2Model ----
(***************************************************************************)
(* Model of dbn_to_parquet.py: the command-line converter that loads each  *)
(* file named on the command line through databento's DBNStore.from_file   *)
(* and exports it with DBNStore.to_parquet to "<filename>.parquet".        *)
(*                                                                         *)
(* The state is the interpreter's position in main(), its local variables, *)
(* the standard error stream, the exit status and the part of the          *)
(* filesystem the program can name.  The two library calls are the         *)
(* environment: from_file returns a store only for a file that holds DBN   *)
(* data and may fail on any file; to_parquet either replaces the file at   *)
(* the path by the parquet encoding of the store, or fails, leaving the    *)
(* path as it was or holding a partial file.                               *)
(***************************************************************************)
EXTENDS Integers, Sequences, FiniteSets

\* ---------------------------------------------------------------- bounds
MaxArgs == 3
MaxRuns == 2

\* ------------------------------------------------------------- constants
Script == "dbn_to_parquet.py"
Suffix == <<".parquet">>
Names  == {<<"a">>, <<"b">>, <<"a", ".parquet">>}

UsageExit    == 1
UncaughtExit == 1
NormalExit   == 0

\* ------------------------------------------------------------ filesystem
Absent  == [kind |-> "absent",  data |-> 0]
Partial == [kind |-> "partial", data |-> 0]
Dbn(d)  == [kind |-> "dbn", data |-> d]
Pq(d)   == [kind |-> "pq",  data |-> d]

\* pqfilename = filename + ".parquet"
PqFilename_ReplaceExt(f) == <<f[1]>> \o Suffix
PqFilename(f) == f \o Suffix

Paths == Names \cup {PqFilename(f) : f \in Names}

\* What a file may hold before the first run: nothing, a DBN capture, or (at a
\* path ending in ".parquet") a parquet file left by some earlier conversion.
InitContents(p) ==
    IF p = <<"a">> THEN {Absent, Dbn(1)}
    ELSE IF p = <<"b">> THEN {Absent, Dbn(2)}
    ELSE IF p \in Names THEN {Absent, Dbn(3), Pq(9)}
    ELSE {Absent, Pq(9)}

InitFs == {f \in [Paths -> {Absent, Dbn(1), Dbn(2), Dbn(3), Pq(9)}] :
             \A p \in Paths : f[p] \in InitContents(p)}

\* ---------------------------------------------------------------- stores
None == [id |-> 0, src |-> <<>>, data |-> 0]
Store(k, f, d) == [id |-> k, src |-> f, data |-> d]

\* ---------------------------------------------------------- stderr lines
UsageLine         == <<"Usage: dbn_to_parquet.py <filename>", "\n">>
ProcessingLine(f) == <<"Processing ">> \o f \o <<"\n">>
CreatedLine(p)    == <<"Created ">> \o p \o <<"\n">>

\* ------------------------------------------------------- pieces of main()
\* len(sys.argv) < 2
NoArgs_OffByOne(argv) == Len(argv) < 1
NoArgs(argv) == Len(argv) < 2

\* sys.argv[1:]
ArgList(argv) == Tail(argv)

\* the element the for loop binds to filename after k completed iterations
NextFilename_Reversed(args, k) == args[Len(args) - k]
NextFilename(args, k) == args[k + 1]

\* what to_parquet writes for a store
ExportContent(s) == Pq(s.data)

VARIABLES
    sys_argv,    \* sys.argv: the script name followed by the arguments
    fs,          \* path -> content
    fs0,         \* fs when the current run started
    run,         \* number of the current run of the program
    prevExit,    \* exit status of the previous run, -1 when there is none
    pc,          \* position in main()
    n,           \* iterations of the for loop started so far
    filename,    \* local variable filename
    pqfilename,  \* local variable pqfilename
    dbn_data,    \* local variable dbn_data (None while unbound)
    ret,         \* value from_file has returned and line 13 has not yet bound
    stderr,      \* the strings written to sys.stderr, in order
    exitStatus,  \* the process's exit status, -1 while it runs
    events       \* history: the writes and library calls of this run, in order

vars == <<sys_argv, fs, fs0, run, prevExit, pc, n, filename, pqfilename,
          dbn_data, ret, stderr, exitStatus, events>>

Args == ArgList(sys_argv)

Event(op, path, ok) == [op |-> op, pos |-> n, path |-> path, ok |-> ok]

RECURSIVE SeqsUpTo(_)
SeqsUpTo(k) ==
    IF k = 0 THEN {<<>>}
    ELSE LET S == SeqsUpTo(k - 1)
         IN  S \cup {Append(s, x) : s \in {t \in S : Len(t) = k - 1}, x \in Names}

Init ==
    /\ sys_argv \in {<<Script>> \o a : a \in SeqsUpTo(MaxArgs)}
    /\ fs \in InitFs
    /\ fs0 = fs
    /\ run = 1
    /\ prevExit = -1
    /\ pc = "main"
    /\ n = 0
    /\ filename = <<>>
    /\ pqfilename = <<>>
    /\ dbn_data = None
    /\ ret = None
    /\ stderr = <<>>
    /\ exitStatus = -1
    /\ events = <<>>

\* ------------------------------------------------------------- main()
\* lines 8-10: no filename argument: usage line, sys.exit(1)
Usage ==
    /\ pc = "main"
    /\ NoArgs(sys_argv)
    /\ stderr' = Append(stderr, UsageLine)
    /\ events' = Append(events, Event("usage", <<>>, TRUE))
    /\ exitStatus' = UsageExit
    /\ pc' = "exit"
    /\ UNCHANGED <<sys_argv, fs, fs0, run, prevExit, n, filename, pqfilename,
                   dbn_data, ret>>

\* line 8 false: fall through to the for statement
EnterLoop ==
    /\ pc = "main"
    /\ ~NoArgs(sys_argv)
    /\ pc' = "for"
    /\ UNCHANGED <<sys_argv, fs, fs0, run, prevExit, n, filename, pqfilename,
                   dbn_data, ret, stderr, exitStatus, events>>

\* line 11: the iterator yields the next argument
ForNext ==
    /\ pc = "for"
    /\ n < Len(Args)
    /\ filename' = NextFilename(Args, n)
    /\ n' = n + 1
    /\ pc' = "processing"
    /\ UNCHANGED <<sys_argv, fs, fs0, run, prevExit, pqfilename, dbn_data, ret,
                   stderr, exitStatus, events>>

\* line 11: the iterator is exhausted; main() returns and the process ends
ForEnd ==
    /\ pc = "for"
    /\ n >= Len(Args)
    /\ pc' = "exit"
    /\ exitStatus' = NormalExit
    /\ dbn_data' = None
    /\ UNCHANGED <<sys_argv, fs, fs0, run, prevExit, n, filename, pqfilename,
                   ret, stderr, events>>

\* line 12
WriteProcessing ==
    /\ pc = "processing"
    /\ stderr' = Append(stderr, ProcessingLine(filename))
    /\ events' = Append(events, Event("processing", filename, TRUE))
    /\ pc' = "load"
    /\ UNCHANGED <<sys_argv, fs, fs0, run, prevExit, n, filename, pqfilename,
                   dbn_data, ret, exitStatus>>

\* line 13, right-hand side: from_file returns a new store
LoadOk ==
    /\ pc = "load"
    /\ fs[filename].kind = "dbn"
    /\ ret' = Store(n, filename, fs[filename].data)
    /\ events' = Append(events, Event("load", filename, TRUE))
    /\ pc' = "bind"
    /\ UNCHANGED <<sys_argv, fs, fs0, run, prevExit, n, filename, pqfilename,
                   dbn_data, stderr, exitStatus>>

\* line 13: from_file raises; nothing catches it and the process ends
LoadFail_Touch ==
    /\ pc = "load"
    /\ events' = Append(events, Event("load", filename, FALSE))
    /\ fs' = [fs EXCEPT ![PqFilename(filename)] = Partial]
    /\ exitStatus' = UncaughtExit
    /\ dbn_data' = None
    /\ pc' = "exit"
    /\ UNCHANGED <<sys_argv, fs0, run, prevExit, n, filename, pqfilename,
                   ret, stderr>>

LoadFail_ExitZero ==
    /\ pc = "load"
    /\ events' = Append(events, Event("load", filename, FALSE))
    /\ exitStatus' = NormalExit
    /\ dbn_data' = None
    /\ pc' = "exit"
    /\ UNCHANGED <<sys_argv, fs, fs0, run, prevExit, n, filename, pqfilename,
                   ret, stderr>>

LoadFail_Swallow ==
    /\ pc = "load"
    /\ events' = Append(events, Event("load", filename, FALSE))
    /\ pc' = "for"
    /\ UNCHANGED <<sys_argv, fs, fs0, run, prevExit, n, filename, pqfilename,
                   dbn_data, ret, stderr, exitStatus>>

LoadFail ==
    /\ pc = "load"
    /\ events' = Append(events, Event("load", filename, FALSE))
    /\ exitStatus' = UncaughtExit
    /\ dbn_data' = None
    /\ pc' = "exit"
    /\ UNCHANGED <<sys_argv, fs, fs0, run, prevExit, n, filename, pqfilename,
                   ret, stderr>>

\* line 13, assignment: dbn_data is rebound and its former store released;
\* line 14: pqfilename = filename + ".parquet"
Bind_KeepFirst ==
    /\ pc = "bind"
    /\ dbn_data' = IF dbn_data = None THEN ret ELSE dbn_data
    /\ ret' = None
    /\ pqfilename' = PqFilename(filename)
    /\ pc' = "export"
    /\ UNCHANGED <<sys_argv, fs, fs0, run, prevExit, n, filename, stderr,
                   exitStatus, events>>

Bind ==
    /\ pc = "bind"
    /\ dbn_data' = ret
    /\ ret' = None
    /\ pqfilename' = PqFilename(filename)
    /\ pc' = "export"
    /\ UNCHANGED <<sys_argv, fs, fs0, run, prevExit, n, filename, stderr,
                   exitStatus, events>>

\* line 15: to_parquet writes the file, replacing what was at the path
ExportOk_Append ==
    /\ pc = "export"
    /\ fs' = [fs EXCEPT ![pqfilename] =
                 IF @.kind = "pq" THEN Pq(@.data + dbn_data.data)
                 ELSE ExportContent(dbn_data)]
    /\ events' = Append(events, Event("export", pqfilename, TRUE))
    /\ pc' = "created"
    /\ UNCHANGED <<sys_argv, fs0, run, prevExit, n, filename, pqfilename,
                   dbn_data, ret, stderr, exitStatus>>

ExportOk ==
    /\ pc = "export"
    /\ fs' = [fs EXCEPT ![pqfilename] = ExportContent(dbn_data)]
    /\ events' = Append(events, Event("export", pqfilename, TRUE))
    /\ pc' = "created"
    /\ UNCHANGED <<sys_argv, fs0, run, prevExit, n, filename, pqfilename,
                   dbn_data, ret, stderr, exitStatus>>

\* line 15: to_parquet raises, having left the path alone or written part of
\* the file; nothing catches it and the process ends
ExportFail_Swallow ==
    /\ pc = "export"
    /\ \E c \in {fs[pqfilename], Partial} :
           fs' = [fs EXCEPT ![pqfilename] = c]
    /\ events' = Append(events, Event("export", pqfilename, FALSE))
    /\ pc' = "created"
    /\ UNCHANGED <<sys_argv, fs0, run, prevExit, n, filename, pqfilename,
                   dbn_data, ret, stderr, exitStatus>>

ExportFail ==
    /\ pc = "export"
    /\ \E c \in {fs[pqfilename], Partial} :
           fs' = [fs EXCEPT ![pqfilename] = c]
    /\ events' = Append(events, Event("export", pqfilename, FALSE))
    /\ exitStatus' = UncaughtExit
    /\ dbn_data' = None
    /\ pc' = "exit"
    /\ UNCHANGED <<sys_argv, fs0, run, prevExit, n, filename, pqfilename,
                   ret, stderr>>

\* line 16
WriteCreated_Silent ==
    /\ pc = "created"
    /\ events' = Append(events, Event("created", pqfilename, TRUE))
    /\ pc' = "for"
    /\ UNCHANGED <<sys_argv, fs, fs0, run, prevExit, n, filename, pqfilename,
                   dbn_data, ret, stderr, exitStatus>>

WriteCreated ==
    /\ pc = "created"
    /\ stderr' = Append(stderr, CreatedLine(pqfilename))
    /\ events' = Append(events, Event("created", pqfilename, TRUE))
    /\ pc' = "for"
    /\ UNCHANGED <<sys_argv, fs, fs0, run, prevExit, n, filename, pqfilename,
                   dbn_data, ret, exitStatus>>

\* lines 18-19: the same command line is run again on the filesystem the
\* previous run left
Rerun ==
    /\ pc = "exit"
    /\ run < MaxRuns
    /\ run' = run + 1
    /\ prevExit' = exitStatus
    /\ fs0' = fs
    /\ pc' = "main"
    /\ n' = 0
    /\ filename' = <<>>
    /\ pqfilename' = <<>>
    /\ dbn_data' = None
    /\ ret' = None
    /\ stderr' = <<>>
    /\ exitStatus' = -1
    /\ events' = <<>>
    /\ UNCHANGED <<sys_argv, fs>>

Next ==
    \/ Usage
    \/ EnterLoop
    \/ ForNext
    \/ ForEnd
    \/ WriteProcessing
    \/ LoadOk
    \/ LoadFail
    \/ Bind
    \/ ExportOk
    \/ ExportFail
    \/ WriteCreated
    \/ Rerun

Spec == Init /\ [][Next]_vars

\* ------------------------------------------------- history of the run
\* positions in events of the library calls that raised
Failures == {k \in DOMAIN events : ~events[k].ok}

\* positions in events of the to_parquet calls that returned
OkExports == {k \in DOMAIN events : events[k].op = "export" /\ events[k].ok}

\* argument positions whose load and export both succeeded
OkPos == {events[k].pos : k \in OkExports}

\* paths written by a to_parquet call that returned
WrittenPaths == {events[k].path : k \in OkExports}

\* paths handed to to_parquet, whether it returned or raised
ExportedPaths == {events[k].path : k \in {e \in DOMAIN events : events[e].op = "export"}}

\* indices in stderr of the progress lines
ProgressLines == {k \in DOMAIN stderr : stderr[k][1] \in {"Processing ", "Created "}}

\* the stores the process holds: the one bound to dbn_data and the one
\* from_file has returned
Live == {dbn_data, ret} \ {None}

\* --------------------------------------------------------------- C1
\* C1: a run with no filename argument writes only the usage line to standard
\* error and ends with exit status 1; it never enters the loop, so there is no
\* progress line, no load call, no export call and no change to any file.
C1_UsageOnly ==
    Len(sys_argv) = 1 =>
        /\ pc \in {"main", "exit"}
        /\ \A k \in DOMAIN events : events[k].op = "usage"
        /\ fs = fs0
        /\ ProgressLines = {}
        /\ pc = "main" => stderr = <<>>
        /\ pc = "exit" => stderr = <<UsageLine>> /\ exitStatus = 1

C1_Witness ==
    /\ Len(sys_argv) = 1
    /\ pc = "exit"
    /\ exitStatus = 1
    /\ stderr = <<<<"Usage: dbn_to_parquet.py <filename>", "\n">>>>

\* --------------------------------------------------------------- C2
\* C2: when the load or the export of the argument at position k raises, the
\* run ends there with a non-zero exit status: the failure is the last event,
\* every argument before k has had its "<input>.parquet" written by a
\* successful export and the file is still there, no event belongs to a later
\* argument, and no path other than those of arguments 1..k has changed.
C2_AbortAtFirstFailure ==
    \A k \in Failures :
        LET p == events[k].pos IN
        /\ k = Len(events)
        /\ pc = "exit"
        /\ exitStatus > 0
        /\ n = p
        /\ \A j \in 1..(p - 1) :
              /\ \E e \in OkExports :
                    events[e].pos = j /\ events[e].path = Args[j] \o <<".parquet">>
              /\ fs[Args[j] \o <<".parquet">>].kind # "absent"
        /\ \A e \in DOMAIN events : events[e].pos <= p
        /\ \A q \in Paths :
              q \notin {Args[j] \o <<".parquet">> : j \in 1..p} => fs[q] = fs0[q]

\* [a, b, a.parquet] where b fails to load: a.parquet is created, the run
\* stops at b, a.parquet.parquet is never created
C2_Witness ==
    /\ Args = << <<"a">>, <<"b">>, <<"a", ".parquet">> >>
    /\ pc = "exit"
    /\ exitStatus = 1
    /\ n = 2
    /\ events[Len(events)] = [op |-> "load", pos |-> 2, path |-> <<"b">>, ok |-> FALSE]
    /\ fs0[<<"a", ".parquet">>] = Absent
    /\ fs[<<"a", ".parquet">>] = Pq(1)
    /\ fs[<<"a", ".parquet", ".parquet">>] = Absent

\* --------------------------------------------------------------- C3
Order == <<"processing", "load", "export", "created">>

\* C3: the events of a run are those of argument 1, then those of argument 2,
\* and so on, each argument's events in the order Processing line, load,
\* export, Created line; standard error holds the Processing and Created lines
\* alternately, in argument order.
C3_InOrderOneAtATime ==
    Len(sys_argv) >= 2 =>
        /\ \A k \in DOMAIN events :
              /\ events[k].pos = ((k - 1) \div 4) + 1
              /\ events[k].op = Order[((k - 1) % 4) + 1]
              /\ events[k].path =
                    IF events[k].op \in {"processing", "load"}
                    THEN Args[events[k].pos]
                    ELSE Args[events[k].pos] \o <<".parquet">>
        /\ \A k \in DOMAIN stderr :
              stderr[k] = IF k % 2 = 1
                          THEN <<"Processing ">> \o Args[(k + 1) \div 2] \o <<"\n">>
                          ELSE <<"Created ">> \o Args[k \div 2] \o <<".parquet", "\n">>
        /\ (pc = "exit" /\ exitStatus = 0) =>
              Len(stderr) = 2 * Len(Args) /\ Len(events) = 4 * Len(Args)

C3_Witness ==
    /\ Args = << <<"a">>, <<"b">> >>
    /\ pc = "exit"
    /\ exitStatus = 0
    /\ stderr = << <<"Processing ", "a", "\n">>,
                   <<"Created ", "a", ".parquet", "\n">>,
                   <<"Processing ", "b", "\n">>,
                   <<"Created ", "b", ".parquet", "\n">> >>
    /\ events[3].path = <<"a", ".parquet">>
    /\ events[7].path = <<"b", ".parquet">>

\* --------------------------------------------------------------- C4
\* C4 as stated: at the end of a run the number of output files the run wrote
\* equals the number of arguments processed successfully.
C4_OneFilePerArgument ==
    pc = "exit" => Cardinality(WrittenPaths) = Cardinality(OkPos)

\* C4 as amended: the files a run writes are exactly the paths
\* "<input>.parquet" of the arguments processed successfully (created when
\* absent, replaced when present), so their number equals the number of
\* distinct filenames among those arguments and never exceeds the number of
\* those arguments; every such file exists, holds the parquet encoding of its
\* input when the run succeeds, and no path that was not handed to the export
\* call changes.
C4_OneFilePerDistinctName ==
    /\ WrittenPaths = {Args[j] \o <<".parquet">> : j \in OkPos}
    /\ Cardinality(WrittenPaths) = Cardinality({Args[j] : j \in OkPos})
    /\ Cardinality(WrittenPaths) <= Cardinality(OkPos)
    /\ \A q \in WrittenPaths : fs[q].kind # "absent"
    /\ (pc = "exit" /\ exitStatus = 0) => \A q \in WrittenPaths : fs[q].kind = "pq"
    /\ \A q \in Paths \ ExportedPaths : fs[q] = fs0[q]

\* [a, a]: two arguments processed, one output file
C4_Witness ==
    /\ Args = << <<"a">>, <<"a">> >>
    /\ pc = "exit"
    /\ exitStatus = 0
    /\ OkPos = {1, 2}
    /\ WrittenPaths = {<<"a", ".parquet">>}
    /\ fs0[<<"a", ".parquet">>] = Absent
    /\ fs[<<"a", ".parquet">>] = Pq(1)

\* --------------------------------------------------------------- C5
\* every argument's load and export returned
AllSucceeded ==
    \A j \in 1..Len(Args) :
        /\ \E k \in DOMAIN events :
              events[k].op = "load" /\ events[k].pos = j /\ events[k].ok
        /\ \E k \in DOMAIN events :
              events[k].op = "export" /\ events[k].pos = j /\ events[k].ok

\* C5: a run with arguments ends with exit status 0 exactly when the load and
\* the export of every argument succeeded and with a non-zero status when one
\* failed; a run without arguments ends with exit status 1.
C5_ExitStatus ==
    pc = "exit" =>
        IF Len(sys_argv) = 1
        THEN exitStatus = 1
        ELSE /\ (exitStatus = 0) <=> AllSucceeded
             /\ (Failures # {}) => exitStatus > 0
             /\ (Failures = {}) <=> AllSucceeded

C5_Witness ==
    /\ Len(Args) = 2
    /\ pc = "exit"
    /\ exitStatus = 0
    /\ AllSucceeded
    /\ Len(events) = 8

\* --------------------------------------------------------------- C6
\* C6 as stated: at the end of a run the number of progress lines is twice the
\* number of files processed, whether "processed" counts the files converted
\* or the files the loop started on.
C6_TwoLinesPerFile ==
    pc = "exit" =>
        \/ Cardinality(ProgressLines) = 2 * Cardinality(OkPos)
        \/ Cardinality(ProgressLines) = 2 * n

\* C6 as amended: a file that is converted gets its two lines, "Processing
\* <filename>" then "Created <filename>.parquet"; the file on which the run
\* aborts gets only its Processing line; so at the end of a run the number of
\* progress lines is twice the number of files converted, plus one when the
\* run aborted on a file.
C6_TwoLinesPerConvertedFile ==
    pc = "exit" =>
        /\ Cardinality(ProgressLines) =
              2 * Cardinality(OkPos) + (IF Failures # {} THEN 1 ELSE 0)
        /\ \A j \in OkPos :
              /\ 2 * j <= Len(stderr)
              /\ stderr[2 * j - 1] = <<"Processing ">> \o Args[j] \o <<"\n">>
              /\ stderr[2 * j] = <<"Created ">> \o Args[j] \o <<".parquet", "\n">>
        /\ Failures # {} =>
              stderr[Len(stderr)] = <<"Processing ">> \o Args[n] \o <<"\n">>

C6_Witness ==
    /\ Args = << <<"a">>, <<"b">> >>
    /\ pc = "exit"
    /\ exitStatus = 1
    /\ OkPos = {1}
    /\ Len(stderr) = 3

\* --------------------------------------------------------------- C7
\* C7: when a run that succeeded is repeated on the same arguments and
\* succeeds again, the second run leaves every file as the first run left it:
\* each "<input>.parquet" is rewritten with the same content and no other path
\* is created or changed.
C7_RerunSameFiles ==
    (run >= 2 /\ prevExit = 0 /\ pc = "exit" /\ exitStatus = 0 /\ Len(sys_argv) >= 2)
        => fs = fs0

C7_Witness ==
    /\ Args = << <<"a">> >>
    /\ run = 2
    /\ prevExit = 0
    /\ pc = "exit"
    /\ exitStatus = 0
    /\ OkExports = {3}
    /\ fs0[<<"a", ".parquet">>] = Pq(1)
    /\ fs[<<"a", ".parquet">>] = Pq(1)

\* --------------------------------------------------------------- C8
\* C8 as stated: once the export call for a file has returned the store is no
\* longer referenced, and at most one store is held at any point, also while
\* the next file's load is under way.
C8_StoreDroppedAfterExport ==
    /\ (n >= 1 /\ pc \in {"created", "for", "processing", "load"}) => dbn_data = None
    /\ Cardinality(Live) <= 1

\* C8 as amended: the store stays bound to dbn_data after its export returns,
\* through the Created line, the next Processing line and the next load call,
\* until the next load's result is assigned to dbn_data or the process ends;
\* dbn_data holds at most one store, and at most two stores are held at once
\* (the previous file's and the one the load has just returned).
C8_StoreHeldUntilRebound ==
    /\ Cardinality(Live) <= 2
    /\ pc # "bind" => ret = None
    /\ pc = "bind" => ret # None /\ ret.id = n /\ ret.src = Args[n]
    /\ pc \in {"main", "exit"} => Live = {}
    /\ (pc \in {"export", "created"} \/ (pc = "for" /\ n >= 1)) =>
          dbn_data # None /\ dbn_data.id = n /\ dbn_data.src = Args[n]
    /\ pc \in {"processing", "load", "bind"} =>
          IF n = 1 THEN dbn_data = None
          ELSE dbn_data # None /\ dbn_data.id = n - 1 /\ dbn_data.src = Args[n - 1]

\* the second file's load has returned while the first file's store is bound
C8_Witness ==
    /\ pc = "bind"
    /\ n = 2
    /\ dbn_data.id = 1
    /\ ret.id = 2
    /\ Cardinality(Live) = 2

LoadFailures == {k \in Failures : events[k].op = "load"}

\* C10 as stated: when the load of f fails, the export is never invoked for f
\* and the path "<f>.parquet" is as it was when the run started.
C10_LoadFailureLeavesOutput ==
    \A k \in LoadFailures :
        /\ \A e \in DOMAIN events :
              events[e].op = "export" => events[e].pos # events[k].pos
        /\ fs[events[k].path \o <<".parquet">>] = fs0[events[k].path \o <<".parquet">>]

\* C10 as amended: when the load of the argument f at position k fails, the
\* export is not invoked for that argument; the path "<f>.parquet" is as it
\* was when the run started unless f also occurs earlier in the argument
\* list, and then it holds what the export of that earlier occurrence wrote.
C10_LoadFailureSkipsExport ==
    \A k \in LoadFailures :
        LET f == events[k].path
            p == events[k].pos
            earlier == {e \in OkExports : events[e].pos < p /\ Args[events[e].pos] = f}
        IN  /\ \A e \in DOMAIN events : events[e].op = "export" => events[e].pos # p
            /\ f = Args[p]
            /\ (\A j \in 1..(p - 1) : Args[j] # f) =>
                  fs[f \o <<".parquet">>] = fs0[f \o <<".parquet">>]
            /\ (\E j \in 1..(p - 1) : Args[j] = f) =>
                  /\ earlier # {}
                  /\ fs[f \o <<".parquet">>].kind = "pq"

\* the load of a fails after b was converted; the old a.parquet is untouched
C10_Witness ==
    /\ Args = << <<"b">>, <<"a">> >>
    /\ pc = "exit"
    /\ events[Len(events)] = [op |-> "load", pos |-> 2, path |-> <<"a">>, ok |-> FALSE]
    /\ fs0[<<"a", ".parquet">>] = Pq(9)
    /\ fs[<<"a", ".parquet">>] = Pq(9)
    /\ fs[<<"b", ".parquet">>] = Pq(2)

====
